---- MODULE Spec2Model ----
(***************************************************************************)
(* A model of the b_trees crate: the AVL tree engine (src/avl/mod.rs), its *)
(* recursive nodes (src/node.rs), its iterators (src/avl/iters/inc.rs,     *)
(* dec.rs, iter.rs, lev.rs) and the ordered map over it (src/map/mod.rs).  *)
(*                                                                         *)
(* The element type T is instantiated by Pair<K, V> (src/lib.rs), whose    *)
(* Ord and Eq look at the key alone.  A tree of plain integers is the case *)
(* in which every payload is 0.                                            *)
(***************************************************************************)
EXTENDS Integers, Sequences, FiniteSets, TLC

\* root, len: the fields of struct AVL.
\* last:  the latest call on the tree: its name, its argument, what it returned.
\* plain: whether insert, which admits duplicates, was ever called.
\* bag:   the reference multiset: for each key, the inserted occurrences not yet
\*        deleted.
\* phase: "free" for a caller that calls anything at any time; "ins", then "del",
\*        for the round-trip caller.
\* ref:   the reference map of the map layer: for each key, the value of the
\*        latest insert as <<v>>, or <<>>.  Only the map's calls write it.
\* prev:  the tree as it was before the latest call, where a caller keeps it.
VARIABLES root, len, last, plain, phase, bag, ref, prev

vars == <<root, len, last, plain, phase, bag, ref, prev>>

(***************************************************************************)
(* Bounds of the model.                                                    *)
(***************************************************************************)
MaxKey == 4
MaxLen == 5
MaxLenInsDel == 6
MaxTag == 1
PairMaxLen == 3
PairMaxKey == 3
RTMaxLen == 5
MaxLenIns == 5
MaxLenOrd == 4
MaxLenDel == 4

Keys == 1..MaxKey
Ints == {[key |-> k, val |-> 0] : k \in Keys}
Pairs == {[key |-> k, val |-> p] : k \in 1..PairMaxKey, p \in 0..MaxTag}
Targets == {[key |-> k, val |-> 0] : k \in 0..(MaxKey + 1)}
Probes == {[key |-> k, val |-> 0] : k \in 1..PairMaxKey}

(***************************************************************************)
(* Pair's Ord, PartialEq: on the key only.                                 *)
(***************************************************************************)
lt(a, b) == a.key < b.key
eq(a, b) == a.key = b.key
gt(a, b) == a.key > b.key

(***************************************************************************)
(* Option<Box<Node<T>>>: None is Nil, Some(node) is the node's record.     *)
(***************************************************************************)
Nil == [nil |-> TRUE]

Node_new(val) == [height |-> 1, val |-> val, left |-> Nil, right |-> Nil]

\* x.as_ref().map(|n| n.height).unwrap_or(0)
h(t) == IF t = Nil THEN 0 ELSE t.height

Max(a, b) == IF a >= b THEN a ELSE b

bf(n) == h(n.left) - h(n.right)

update_height(n) == [n EXCEPT !.height = 1 + Max(h(n.left), h(n.right))]

\* rotate_left with the old head hung on the wrong side of the new head.
rotate_left_wrong_side(n) ==
    IF n.right = Nil THEN n
    ELSE LET new_head == n.right
             head_left == new_head.left
             old_head == update_height([n EXCEPT !.right = head_left])
         IN  update_height([new_head EXCEPT !.right = old_head])

rotate_left(n) ==
    IF n.right = Nil THEN n
    ELSE LET new_head == n.right
             head_left == new_head.left
             old_head == update_height([n EXCEPT !.right = head_left])
         IN  update_height([new_head EXCEPT !.left = old_head])

rotate_right(n) ==
    IF n.left = Nil THEN n
    ELSE LET new_head == n.left
             head_right == new_head.right
             old_head == update_height([n EXCEPT !.left = head_right])
         IN  update_height([new_head EXCEPT !.right = old_head])

\* balance without the inner rotation of the LR and RL cases.
balance_single_only(n) ==
    IF bf(n) > 1 THEN
        IF n.left # Nil THEN rotate_right(n) ELSE n
    ELSE IF bf(n) < -1 THEN
        IF n.right # Nil THEN rotate_left(n) ELSE n
    ELSE n

balance(n) ==
    IF bf(n) > 1 THEN
        IF n.left # Nil THEN
            LET l == IF bf(n.left) < 0 THEN rotate_left(n.left) ELSE n.left
            IN  rotate_right([n EXCEPT !.left = l])
        ELSE n
    ELSE IF bf(n) < -1 THEN
        IF n.right # Nil THEN
            LET r == IF bf(n.right) > 0 THEN rotate_right(n.right) ELSE n.right
            IN  rotate_left([n EXCEPT !.right = r])
        ELSE n
    ELSE n

RECURSIVE insert(_, _)
insert(n, val) ==
    LET m == IF lt(val, n.val)
             THEN IF n.left # Nil
                  THEN [n EXCEPT !.left = insert(n.left, val)]
                  ELSE [n EXCEPT !.left = Node_new(val)]
             ELSE IF n.right # Nil
                  THEN [n EXCEPT !.right = insert(n.right, val)]
                  ELSE [n EXCEPT !.right = Node_new(val)]
    IN  balance(update_height(m))

\* insert_distinct leaving the stored element as it is on Ordering::Equal.
RECURSIVE insert_distinct_keeps_old(_, _)
insert_distinct_keeps_old(n, val) ==
    LET r == IF lt(val, n.val)
             THEN IF n.left # Nil
                  THEN LET s == insert_distinct_keeps_old(n.left, val)
                       IN  <<s[1], [n EXCEPT !.left = s[2]]>>
                  ELSE <<TRUE, [n EXCEPT !.left = Node_new(val)]>>
             ELSE IF eq(val, n.val)
             THEN <<FALSE, n>>
             ELSE IF n.right # Nil
                  THEN LET s == insert_distinct_keeps_old(n.right, val)
                       IN  <<s[1], [n EXCEPT !.right = s[2]]>>
                  ELSE <<TRUE, [n EXCEPT !.right = Node_new(val)]>>
    IN  <<r[1], balance(r[2])>>

\* Returns <<res, node>>: whether a new node was created, and the subtree.
RECURSIVE insert_distinct(_, _)
insert_distinct(n, val) ==
    LET r == IF lt(val, n.val)
             THEN IF n.left # Nil
                  THEN LET s == insert_distinct(n.left, val)
                       IN  <<s[1], [n EXCEPT !.left = s[2]]>>
                  ELSE <<TRUE, [n EXCEPT !.left = Node_new(val)]>>
             ELSE IF eq(val, n.val)
             THEN <<FALSE, [n EXCEPT !.val = val]>>
             ELSE IF n.right # Nil
                  THEN LET s == insert_distinct(n.right, val)
                       IN  <<s[1], [n EXCEPT !.right = s[2]]>>
                  ELSE <<TRUE, [n EXCEPT !.right = Node_new(val)]>>
    IN  <<r[1], balance(r[2])>>

\* The value of the node the `while let Some(val) = &mut t_val.left` walk ends at.
\* The walk to the leftmost node stopping at the node it starts from.
leftmost_val_at_top(n) == n.val

RECURSIVE leftmost_val(_)
leftmost_val(n) == IF n.left # Nil THEN leftmost_val(n.left) ELSE n.val

\* std::mem::replace(&mut t_val.val, v) on that node.
RECURSIVE replace_leftmost(_, _)
replace_leftmost(n, v) ==
    IF n.left # Nil
    THEN [n EXCEPT !.left = replace_leftmost(n.left, v)]
    ELSE [n EXCEPT !.val = v]

\* delete answering (v, None) | (None, v) with the left child in both cases.
RECURSIVE delete_left_only(_, _)
delete_left_only(n, val) ==
    LET r == IF eq(val, n.val) THEN
                 IF n.left # Nil /\ n.right # Nil THEN
                     LET new_val == leftmost_val(n.right)
                         right0 == replace_leftmost(n.right, n.val)
                         right == delete_left_only(right0, val)[2]
                         newnode == [height |-> 1, val |-> new_val,
                                     left |-> n.left, right |-> right]
                     IN  <<TRUE, update_height(newnode)>>
                 ELSE <<TRUE, n.left>>
             ELSE IF gt(val, n.val) THEN
                 IF n.right # Nil
                 THEN LET s == delete_left_only(n.right, val)
                      IN  <<s[1], [n EXCEPT !.right = s[2]]>>
                 ELSE <<FALSE, n>>
             ELSE
                 IF n.left # Nil
                 THEN LET s == delete_left_only(n.left, val)
                      IN  <<s[1], [n EXCEPT !.left = s[2]]>>
                 ELSE <<FALSE, n>>
    IN  <<r[1], IF r[2] # Nil THEN balance(r[2]) ELSE Nil>>

\* delete answering true where the walk ends without finding the value.
RECURSIVE delete_miss_true(_, _)
delete_miss_true(n, val) ==
    LET r == IF eq(val, n.val) THEN
                 IF n.left # Nil /\ n.right # Nil THEN
                     LET new_val == leftmost_val(n.right)
                         right0 == replace_leftmost(n.right, n.val)
                         right == delete_miss_true(right0, val)[2]
                         newnode == [height |-> 1, val |-> new_val,
                                     left |-> n.left, right |-> right]
                     IN  <<TRUE, update_height(newnode)>>
                 ELSE IF n.right = Nil THEN <<TRUE, n.left>>
                 ELSE <<TRUE, n.right>>
             ELSE IF gt(val, n.val) THEN
                 IF n.right # Nil
                 THEN LET s == delete_miss_true(n.right, val)
                      IN  <<s[1], [n EXCEPT !.right = s[2]]>>
                 ELSE <<TRUE, n>>
             ELSE
                 IF n.left # Nil
                 THEN LET s == delete_miss_true(n.left, val)
                      IN  <<s[1], [n EXCEPT !.left = s[2]]>>
                 ELSE <<TRUE, n>>
    IN  <<r[1], IF r[2] # Nil THEN balance(r[2]) ELSE Nil>>

\* Returns <<con, rv>>: whether an element was removed, and the subtree left.
RECURSIVE delete(_, _)
delete(n, val) ==
    LET r == IF eq(val, n.val) THEN
                 IF n.left # Nil /\ n.right # Nil THEN
                     LET new_val == leftmost_val(n.right)
                         right0 == replace_leftmost(n.right, n.val)
                         right == delete(right0, val)[2]
                         newnode == [height |-> 1, val |-> new_val,
                                     left |-> n.left, right |-> right]
                     IN  <<TRUE, update_height(newnode)>>
                 ELSE IF n.right = Nil THEN <<TRUE, n.left>>
                 ELSE <<TRUE, n.right>>
             ELSE IF gt(val, n.val) THEN
                 IF n.right # Nil
                 THEN LET s == delete(n.right, val)
                      IN  <<s[1], [n EXCEPT !.right = s[2]]>>
                 ELSE <<FALSE, n>>
             ELSE
                 IF n.left # Nil
                 THEN LET s == delete(n.left, val)
                      IN  <<s[1], [n EXCEPT !.left = s[2]]>>
                 ELSE <<FALSE, n>>
    IN  <<r[1], IF r[2] # Nil THEN balance(r[2]) ELSE Nil>>

(***************************************************************************)
(* Nearness for the signed integers, and the best-match searches called    *)
(* with it, as AVL::nearest and AVL::farthest call them.                   *)
(***************************************************************************)
abs(x) == IF x < 0 THEN -x ELSE x

nearer(self, other, target) ==
    IF abs(self.key - target.key) < abs(other.key - target.key)
    THEN self ELSE other

farther(self, other, target) ==
    IF abs(self.key - target.key) > abs(other.key - target.key)
    THEN self ELSE other

\* nearest_to returning the subtree's answer without comparing it to self.val.
RECURSIVE nearest_to_skips_self(_, _)
nearest_to_skips_self(n, target) ==
    IF eq(target, n.val) THEN n.val
    ELSE IF gt(target, n.val) THEN
        IF n.right # Nil
        THEN nearest_to_skips_self(n.right, target)
        ELSE n.val
    ELSE
        IF n.left # Nil
        THEN nearest_to_skips_self(n.left, target)
        ELSE n.val

RECURSIVE nearest_to(_, _)
nearest_to(n, target) ==
    IF eq(target, n.val) THEN n.val
    ELSE IF gt(target, n.val) THEN
        IF n.right # Nil
        THEN nearer(n.val, nearest_to(n.right, target), target)
        ELSE n.val
    ELSE
        IF n.left # Nil
        THEN nearer(n.val, nearest_to(n.left, target), target)
        ELSE n.val

RECURSIVE farthest_to(_, _)
farthest_to(n, target) ==
    IF eq(target, n.val) THEN
        IF n.left # Nil /\ n.right # Nil
        THEN farther(farthest_to(n.left, target), farthest_to(n.right, target), target)
        ELSE IF n.left # Nil THEN farthest_to(n.left, target)
        ELSE IF n.right # Nil THEN farthest_to(n.right, target)
        ELSE n.val
    ELSE IF gt(target, n.val) THEN
        IF n.left # Nil
        THEN farther(n.val, farthest_to(n.left, target), target)
        ELSE n.val
    ELSE
        IF n.right # Nil
        THEN farther(n.val, farthest_to(n.right, target), target)
        ELSE n.val

(***************************************************************************)
(* The ordered iterators.  A FakeNode cursor is the sequence of the nodes  *)
(* on its parent chain, the current node first; <<>> is None.  An          *)
(* Option<&T> is <<>> for None and <<v>> for Some(v).                      *)
(***************************************************************************)
RECURSIVE inc_FakeNode_new(_, _)
inc_FakeNode_new(node, parent) ==
    IF node.left # Nil
    THEN inc_FakeNode_new(node.left, <<node>> \o parent)
    ELSE <<node>> \o parent

inc_FakeNode_init(node) == inc_FakeNode_new(node, <<>>)

Increasing_new(node) == IF node = Nil THEN <<>> ELSE inc_FakeNode_init(node)

\* Returns <<item, iterator>>.
Increasing_next(it) ==
    IF it = <<>> THEN << <<>>, it >>
    ELSE LET node == it[1]
             parent == Tail(it)
         IN  << <<node.val>>,
                IF node.right # Nil
                THEN inc_FakeNode_new(node.right, parent)
                ELSE parent >>

RECURSIVE dec_FakeNode_new(_, _)
dec_FakeNode_new(node, parent) ==
    IF node.right # Nil
    THEN dec_FakeNode_new(node.right, <<node>> \o parent)
    ELSE <<node>> \o parent

\* The descending cursor started by the ascending walk.
dec_FakeNode_init_leftward(node) == inc_FakeNode_new(node, <<>>)

dec_FakeNode_init(node) == dec_FakeNode_new(node, <<>>)

Decreasing_new(node) == IF node = Nil THEN <<>> ELSE dec_FakeNode_init(node)

Decreasing_next(it) ==
    IF it = <<>> THEN << <<>>, it >>
    ELSE LET node == it[1]
             parent == Tail(it)
         IN  << <<node.val>>,
                IF node.left # Nil
                THEN dec_FakeNode_new(node.left, parent)
                ELSE parent >>

\* The items a caller gets by calling next() until it returns None.
RECURSIVE inc_drain(_)
inc_drain(it) ==
    LET r == Increasing_next(it)
    IN  IF r[1] = <<>> THEN <<>> ELSE r[1] \o inc_drain(r[2])

RECURSIVE dec_drain(_)
dec_drain(it) ==
    LET r == Decreasing_next(it)
    IN  IF r[1] = <<>> THEN <<>> ELSE r[1] \o dec_drain(r[2])

(***************************************************************************)
(* Iterator::skip_while over the ordered iterators, drained: the items are *)
(* dropped while the predicate holds, and from the first item on which it  *)
(* fails everything is yielded.                                            *)
(***************************************************************************)
\* less_than skipping with v > upper.
RECURSIVE dec_skip_while_gt(_, _)
dec_skip_while_gt(it, upper) ==
    LET r == Decreasing_next(it)
    IN  IF r[1] = <<>> THEN <<>>
        ELSE IF gt(r[1][1], upper) THEN dec_skip_while_gt(r[2], upper)
        ELSE r[1] \o dec_drain(r[2])

\* decreasing().skip_while(|&v| v >= upper)
RECURSIVE dec_skip_while_ge(_, _)
dec_skip_while_ge(it, upper) ==
    LET r == Decreasing_next(it)
    IN  IF r[1] = <<>> THEN <<>>
        ELSE IF ~lt(r[1][1], upper) THEN dec_skip_while_ge(r[2], upper)
        ELSE r[1] \o dec_drain(r[2])

\* increasing().skip_while(|&v| v <= lower)
RECURSIVE inc_skip_while_le(_, _)
inc_skip_while_le(it, lower) ==
    LET r == Increasing_next(it)
    IN  IF r[1] = <<>> THEN <<>>
        ELSE IF ~gt(r[1][1], lower) THEN inc_skip_while_le(r[2], lower)
        ELSE r[1] \o inc_drain(r[2])

\* AVL::height
AVL_height == IF root # Nil THEN root.height ELSE 0

\* AVL::increasing, AVL::decreasing, collected.
AVL_increasing == inc_drain(Increasing_new(root))
AVL_decreasing == dec_drain(Decreasing_new(root))

(***************************************************************************)
(* The tree engine.                                                        *)
(***************************************************************************)
NoCall == [op |-> "new", arg |-> 0, res |-> FALSE]

\* The ghost of a fresh tree: no call was made before.
NoPrev == [root |-> Nil, len |-> 0]

\* A caller that keeps neither the reference map nor the tree before the call.
NoGhost == UNCHANGED <<ref, prev>>

Init ==
    /\ root = Nil
    /\ len = 0
    /\ last = NoCall
    /\ plain = FALSE
    /\ phase = "free"
    /\ bag = [k \in Keys |-> 0]
    /\ ref = [k \in Keys |-> <<>>]
    /\ prev = NoPrev

AVL_insert(val) ==
    /\ root' = IF root # Nil THEN insert(root, val) ELSE Node_new(val)
    /\ len' = len + 1
    /\ last' = [op |-> "insert", arg |-> val, res |-> TRUE]
    /\ plain' = TRUE
    /\ bag' = [bag EXCEPT ![val.key] = @ + 1]
    /\ UNCHANGED phase

\* insert_distinct counting every call, as insert does.
AVL_insert_distinct_counts_all(val) ==
    /\ LET r == IF root # Nil THEN insert_distinct(root, val)
                ELSE <<TRUE, Node_new(val)>>
       IN  /\ root' = r[2]
           /\ len' = len + 1
           /\ last' = [op |-> "insert_distinct", arg |-> val, res |-> r[1]]
    /\ bag' = [bag EXCEPT ![val.key] = IF @ = 0 THEN 1 ELSE @]
    /\ UNCHANGED <<plain, phase>>

AVL_insert_distinct(val) ==
    /\ LET r == IF root # Nil THEN insert_distinct(root, val)
                ELSE <<TRUE, Node_new(val)>>
       IN  /\ root' = r[2]
           /\ len' = IF r[1] THEN len + 1 ELSE len
           /\ last' = [op |-> "insert_distinct", arg |-> val, res |-> r[1]]
    /\ bag' = [bag EXCEPT ![val.key] = IF @ = 0 THEN 1 ELSE @]
    /\ UNCHANGED <<plain, phase>>

\* AVL::delete reads the flag Node::delete returns (written `v.is_some()` there).
AVL_delete(val) ==
    /\ LET r == IF root # Nil THEN delete(root, val) ELSE <<FALSE, Nil>>
       IN  /\ root' = r[2]
           /\ len' = IF r[1] THEN len - 1 ELSE len
           /\ last' = [op |-> "delete", arg |-> val, res |-> r[1]]
    /\ bag' = [bag EXCEPT ![val.key] = IF @ = 0 THEN 0 ELSE @ - 1]
    /\ UNCHANGED <<plain, phase>>

AVL_clear ==
    /\ len' = 0
    /\ root' = Nil
    /\ last' = [op |-> "clear", arg |-> 0, res |-> TRUE]
    /\ bag' = [k \in Keys |-> 0]
    /\ UNCHANGED <<plain, phase>>

Next ==
    \/ \E val \in Ints : len < MaxLen /\ AVL_insert(val) /\ NoGhost
    \/ \E val \in Ints : len < MaxLen /\ AVL_insert_distinct(val) /\ NoGhost
    \/ \E val \in Ints : AVL_delete(val) /\ NoGhost
    \/ AVL_clear /\ NoGhost

Spec == Init /\ [][Next]_vars

\* insert and delete alone, as in the statements about "inserts/deletes".
NextInsDel ==
    \/ \E val \in Ints : len < MaxLenInsDel /\ AVL_insert(val) /\ NoGhost
    \/ \E val \in Ints : AVL_delete(val) /\ NoGhost

SpecInsDel == Init /\ [][NextInsDel]_vars

(***************************************************************************)
(* The tree of Pairs: elements that compare by key and carry a payload.    *)
(* delete is called with a probe element; only its key is compared.        *)
(***************************************************************************)
NextPair ==
    \/ \E val \in Pairs : len < PairMaxLen /\ AVL_insert_distinct(val) /\ NoGhost
    \/ \E val \in Pairs : len < PairMaxLen /\ AVL_insert(val) /\ NoGhost
    \/ \E val \in Probes : AVL_delete(val) /\ NoGhost

SpecPair == Init /\ [][NextPair]_vars

(***************************************************************************)
(* Trees built by inserts, and the best-match queries on them.  A query    *)
(* leaves the tree alone; last holds what it returned, <<>> for None and   *)
(* <<e>> for Some(e).                                                      *)
(***************************************************************************)
AVL_nearest_to(target) ==
    /\ last' = [op |-> "nearest_to", arg |-> target,
                res |-> IF root # Nil THEN <<nearest_to(root, target)>> ELSE <<>>]
    /\ UNCHANGED <<root, len, plain, phase, bag>>

AVL_farthest_to(target) ==
    /\ last' = [op |-> "farthest_to", arg |-> target,
                res |-> IF root # Nil THEN <<farthest_to(root, target)>> ELSE <<>>]
    /\ UNCHANGED <<root, len, plain, phase, bag>>

NextQuery ==
    \/ \E val \in Ints : len < MaxLenIns /\ AVL_insert(val) /\ NoGhost
    \/ \E target \in Targets : AVL_nearest_to(target) /\ NoGhost
    \/ \E target \in Targets : AVL_farthest_to(target) /\ NoGhost

SpecQuery == Init /\ [][NextQuery]_vars

(***************************************************************************)
(* The threshold views, on trees built by every mutator.  last.res is the  *)
(* sequence the returned iterator yields.                                  *)
(***************************************************************************)
AVL_greater_than(lower) ==
    /\ last' = [op |-> "greater_than", arg |-> lower,
                res |-> inc_skip_while_le(Increasing_new(root), lower)]
    /\ UNCHANGED <<root, len, plain, phase, bag>>

AVL_less_than(upper) ==
    /\ last' = [op |-> "less_than", arg |-> upper,
                res |-> dec_skip_while_ge(Decreasing_new(root), upper)]
    /\ UNCHANGED <<root, len, plain, phase, bag>>

NextOrd ==
    \/ \E val \in Ints : len < MaxLenOrd /\ AVL_insert(val) /\ NoGhost
    \/ \E val \in Ints : len < MaxLenOrd /\ AVL_insert_distinct(val) /\ NoGhost
    \/ \E val \in Ints : AVL_delete(val) /\ NoGhost
    \/ \E lower \in Targets : AVL_greater_than(lower) /\ NoGhost
    \/ \E upper \in Targets : AVL_less_than(upper) /\ NoGhost

SpecOrd == Init /\ [][NextOrd]_vars

(***************************************************************************)
(* The round trip: a caller inserts a sequence of values, then deletes     *)
(* every inserted occurrence once, in an order of its choosing.  bag holds *)
(* the occurrences not yet deleted.                                        *)
(***************************************************************************)
InitRT ==
    /\ root = Nil
    /\ len = 0
    /\ last = NoCall
    /\ plain = FALSE
    /\ phase = "ins"
    /\ bag = [k \in Keys |-> 0]
    /\ ref = [k \in Keys |-> <<>>]
    /\ prev = NoPrev

RT_turn ==
    /\ phase = "ins"
    /\ phase' = "del"
    /\ UNCHANGED <<root, len, last, plain, bag>>

NextRT ==
    \/ \E val \in Ints : phase = "ins" /\ len < RTMaxLen /\ AVL_insert(val) /\ NoGhost
    \/ RT_turn /\ NoGhost
    \/ \E val \in Ints : phase = "del" /\ bag[val.key] > 0 /\ AVL_delete(val) /\ NoGhost

SpecRT == InitRT /\ [][NextRT]_vars

BagEmpty == \A k \in Keys : bag[k] = 0

\* C6: once all the values are inserted, every delete of an occurrence not yet
\* deleted returns true, and when every occurrence has been deleted the root is
\* absent, len() is 0 and height() is 0.
C6_RoundTrip ==
    phase = "del" =>
        /\ last.op = "delete" => last.res
        /\ BagEmpty => root = Nil /\ len = 0 /\ AVL_height = 0

\* The last of the inserted occurrences has just been deleted.
C6_Witness ==
    /\ phase = "del" /\ BagEmpty
    /\ last.op = "delete" /\ last.res
    /\ root = Nil /\ len = 0

(***************************************************************************)
(* What the structure is, computed from its shape and not from the cached  *)
(* height fields.                                                          *)
(***************************************************************************)
RECURSIVE TrueHeight(_)
TrueHeight(t) ==
    IF t = Nil THEN 0 ELSE 1 + Max(TrueHeight(t.left), TrueHeight(t.right))

RECURSIVE Balanced(_)
Balanced(t) ==
    \/ t = Nil
    \/ /\ TrueHeight(t.left) - TrueHeight(t.right) \in {-1, 0, 1}
       /\ Balanced(t.left)
       /\ Balanced(t.right)

RECURSIVE HeightsCached(_)
HeightsCached(t) ==
    \/ t = Nil
    \/ /\ t.height = TrueHeight(t)
       /\ HeightsCached(t.left)
       /\ HeightsCached(t.right)

RECURSIVE Elems(_)
Elems(t) == IF t = Nil THEN {} ELSE {t.val} \cup Elems(t.left) \cup Elems(t.right)

\* C1: after inserts and deletes every node's subtrees differ in height by at most 1.
C1_Balanced == Balanced(root)

\* C2: after inserts and deletes height() is the true height of the structure.
C2_HeightTrue == AVL_height = TrueHeight(root)
RECURSIVE Ordered(_)
Ordered(t) ==
    \/ t = Nil
    \/ /\ \A e \in Elems(t.left) : e.key <= t.val.key
       /\ \A e \in Elems(t.right) : e.key >= t.val.key
       /\ Ordered(t.left)
       /\ Ordered(t.right)

RECURSIVE StrictlyOrdered(_)
StrictlyOrdered(t) ==
    \/ t = Nil
    \/ /\ \A e \in Elems(t.left) : e.key < t.val.key
       /\ \A e \in Elems(t.right) : e.key > t.val.key
       /\ StrictlyOrdered(t.left)
       /\ StrictlyOrdered(t.right)

\* C3: after inserts, insert_distincts and deletes every node's left subtree holds
\* only values <= the node's value and its right subtree only values >= it; while
\* insert (the duplicate-allowing one) has never been called, < and >.
C3_BSTOrder == Ordered(root) /\ (~plain => StrictlyOrdered(root))

\* A delete has just removed an element from a tree that keeps a duplicate of a
\* node's value in that node's left subtree.
C3_Witness ==
    /\ last.op = "delete" /\ last.res
    /\ root # Nil /\ root.left # Nil /\ root.right # Nil
    /\ root.left.val.key = root.val.key

Count == Len(AVL_increasing)

\* C4: len() is always the number of elements a full increasing() traversal yields;
\* that number grows by 1 on every insert, by 1 on an insert_distinct exactly when it
\* returns true, shrinks by 1 on a delete exactly when it returns true, and is 0
\* after clear.
C4_LenAccounting ==
    /\ [](len = Count)
    /\ [][ /\ last'.op = "insert" => len' = len + 1
           /\ last'.op = "insert_distinct" =>
                  len' = len + (IF last'.res THEN 1 ELSE 0)
           /\ last'.op = "delete" =>
                  len' = len - (IF last'.res THEN 1 ELSE 0)
           /\ last'.op = "clear" => len' = 0 ]_vars

\* An insert_distinct has just found its key stored, in a tree of several elements.
C4_Witness ==
    /\ last.op = "insert_distinct" /\ ~last.res
    /\ len >= 3 /\ plain

Reverse(s) == [i \in 1..Len(s) |-> s[Len(s) + 1 - i]]

NonDecreasing(s) == \A i \in 1..(Len(s) - 1) : s[i].key <= s[i + 1].key
NonIncreasing(s) == \A i \in 1..(Len(s) - 1) : s[i].key >= s[i + 1].key

\* C5: increasing() yields a non-decreasing sequence, decreasing() a non-increasing
\* one, and decreasing() yields the reverse of what increasing() yields.
C5_Traversals ==
    /\ NonDecreasing(AVL_increasing)
    /\ NonIncreasing(AVL_decreasing)
    /\ AVL_decreasing = Reverse(AVL_increasing)

\* A tree of three levels with a repeated value, after a delete.
C5_Witness ==
    /\ last.op = "delete" /\ last.res
    /\ Len(AVL_increasing) >= 4
    /\ TrueHeight(root) >= 3
    /\ \E i \in 1..(Len(AVL_increasing) - 1) :
           AVL_increasing[i].key = AVL_increasing[i + 1].key
    /\ \E i \in 1..(Len(AVL_increasing) - 1) :
           AVL_increasing[i].key < AVL_increasing[i + 1].key

\* The stored elements that compare equal to e, in traversal order.
Entries(e) == SelectSeq(AVL_increasing, LAMBDA x : eq(x, e))

Dist(e, target) == abs(e.key - target.key)

\* C8: on a tree built by inserts, nearest_to with the closer-by-absolute-difference
\* metric returns a stored element no farther from the target than any element the
\* full traversal yields; on the empty tree it returns None.
C8_Nearest ==
    last.op = "nearest_to" =>
        IF root = Nil THEN last.res = <<>>
        ELSE /\ Len(last.res) = 1
             /\ last.res[1] \in Elems(root)
             /\ \A i \in 1..Len(AVL_increasing) :
                    Dist(last.res[1], last.arg) <= Dist(AVL_increasing[i], last.arg)

\* nearest_to has answered for a target that is not stored and lies between stored
\* values, with an element that is not the root's, in a tree of three levels.
C8_Witness ==
    /\ last.op = "nearest_to"
    /\ root # Nil /\ TrueHeight(root) >= 3
    /\ \A e \in Elems(root) : e.key # last.arg.key
    /\ \E e \in Elems(root) : e.key < last.arg.key
    /\ \E e \in Elems(root) : e.key > last.arg.key
    /\ last.res[1] # root.val

\* C9: on a tree built by inserts, farthest_to with the farther-by-absolute-difference
\* metric returns a stored element no closer to the target than any element the full
\* traversal yields.
C9_Farthest ==
    (last.op = "farthest_to" /\ root # Nil) =>
        /\ Len(last.res) = 1
        /\ last.res[1] \in Elems(root)
        /\ \A i \in 1..Len(AVL_increasing) :
               Dist(last.res[1], last.arg) >= Dist(AVL_increasing[i], last.arg)
\* How many items of s have key k.
Occurrences(s, k) == Cardinality({i \in 1..Len(s) : s[i].key = k})

\* C10: less_than(x) yields exactly the stored elements < x, in descending order, and
\* greater_than(x) exactly the stored elements > x, in ascending order.
C10_Thresholds ==
    /\ last.op = "less_than" =>
           /\ NonIncreasing(last.res)
           /\ \A k \in Keys : Occurrences(last.res, k) =
                  (IF k < last.arg.key THEN bag[k] ELSE 0)
    /\ last.op = "greater_than" =>
           /\ NonDecreasing(last.res)
           /\ \A k \in Keys : Occurrences(last.res, k) =
                  (IF k > last.arg.key THEN bag[k] ELSE 0)

\* less_than(x) has skipped a stored x and a larger element and yielded two smaller
\* ones, on a tree that holds a repeated value.
C10_Witness ==
    /\ last.op = "less_than"
    /\ Len(last.res) >= 2
    /\ last.arg.key \in Keys /\ bag[last.arg.key] > 0
    /\ \E k \in Keys : k > last.arg.key /\ bag[k] > 0
    /\ \E k \in Keys : bag[k] > 1

(***************************************************************************)
(* The ordered map (src/map/mod.rs): a tree of Pairs reached by key.  The  *)
(* comparator closures |en| key.cmp(&en.key) are given by their key.       *)
(***************************************************************************)
MapKeys == 1..PairMaxKey
MapVals == 0..MaxTag

\* contains_by taking the branches of Less and Greater the other way round.
RECURSIVE contains_by_mirrored(_, _)
contains_by_mirrored(n, key) ==
    IF key < n.val.key
    THEN IF n.right # Nil THEN contains_by_mirrored(n.right, key) ELSE FALSE
    ELSE IF key = n.val.key THEN TRUE
    ELSE IF n.left # Nil THEN contains_by_mirrored(n.left, key) ELSE FALSE

RECURSIVE contains_by(_, _)
contains_by(n, key) ==
    IF key < n.val.key
    THEN IF n.left # Nil THEN contains_by(n.left, key) ELSE FALSE
    ELSE IF key = n.val.key THEN TRUE
    ELSE IF n.right # Nil THEN contains_by(n.right, key) ELSE FALSE

\* <<>> for None, <<e>> for Some(e).
RECURSIVE get_by(_, _)
get_by(n, key) ==
    IF key < n.val.key
    THEN IF n.left # Nil THEN get_by(n.left, key) ELSE <<>>
    ELSE IF key = n.val.key THEN <<n.val>>
    ELSE IF n.right # Nil THEN get_by(n.right, key) ELSE <<>>

\* Node::remove_by, which AVL::remove_by calls: delete's walk, steered by the
\* comparator, answering <<v, rv>> with the removed element as an Option.
RECURSIVE remove_by(_, _)
remove_by(n, key) ==
    LET r == IF key = n.val.key THEN
                 IF n.left # Nil /\ n.right # Nil THEN
                     LET new_val == leftmost_val(n.right)
                         right0 == replace_leftmost(n.right, n.val)
                         right == remove_by(right0, key)[2]
                         newnode == [height |-> 1, val |-> new_val,
                                     left |-> n.left, right |-> right]
                     IN  <<<<n.val>>, update_height(newnode)>>
                 ELSE IF n.right = Nil THEN <<<<n.val>>, n.left>>
                 ELSE <<<<n.val>>, n.right>>
             ELSE IF key > n.val.key THEN
                 IF n.right # Nil
                 THEN LET s == remove_by(n.right, key)
                      IN  <<s[1], [n EXCEPT !.right = s[2]]>>
                 ELSE <<<<>>, n>>
             ELSE
                 IF n.left # Nil
                 THEN LET s == remove_by(n.left, key)
                      IN  <<s[1], [n EXCEPT !.left = s[2]]>>
                 ELSE <<<<>>, n>>
    IN  <<r[1], IF r[2] # Nil THEN balance(r[2]) ELSE Nil>>

AVL_remove_by(key) ==
    /\ LET r == IF root # Nil THEN remove_by(root, key) ELSE <<<<>>, Nil>>
       IN  /\ root' = r[2]
           /\ len' = IF r[1] # <<>> THEN len - 1 ELSE len
           /\ last' = [op |-> "remove_by", arg |-> [key |-> key, val |-> 0],
                       res |-> r[1]]
    /\ bag' = [bag EXCEPT ![key] = IF @ = 0 THEN 0 ELSE @ - 1]
    /\ UNCHANGED <<plain, phase>>

BTreeMap_contains_key(key) ==
    IF root # Nil THEN contains_by(root, key) ELSE FALSE

BTreeMap_get(key) ==
    LET e == IF root # Nil THEN get_by(root, key) ELSE <<>>
    IN  IF e # <<>> THEN <<e[1].val>> ELSE <<>>

BTreeMap_len == len

BTreeMap_insert(key, val) ==
    /\ AVL_insert_distinct([key |-> key, val |-> val])
    /\ ref' = [ref EXCEPT ![key] = <<val>>]
    /\ UNCHANGED prev

BTreeMap_remove(key) ==
    /\ AVL_remove_by(key)
    /\ ref' = [ref EXCEPT ![key] = <<>>]
    /\ UNCHANGED prev

NextMap ==
    \/ \E key \in MapKeys, val \in MapVals : BTreeMap_insert(key, val)
    \/ \E key \in MapKeys : BTreeMap_remove(key)

SpecMap == Init /\ [][NextMap]_vars

\* C11: the map behaves as the reference map ref: in every state
\* contains_key(k) holds iff k has a value in ref, get(k) is the value of the
\* latest insert for k, and len() is the number of keys present; every insert
\* returns true iff its key was not present, and every remove returns the
\* entry of its key iff the key was present.
C11_MapRefines ==
    /\ [](/\ \A key \in MapKeys :
                /\ BTreeMap_contains_key(key) = (ref[key] # <<>>)
                /\ BTreeMap_get(key) = ref[key]
          /\ BTreeMap_len = Cardinality({key \in Keys : ref[key] # <<>>}))
    /\ [][/\ last'.op = "insert_distinct"
                => last'.res = (ref[last'.arg.key] = <<>>)
          /\ last'.op = "remove_by"
                => last'.res = IF ref[last'.arg.key] = <<>> THEN <<>>
                               ELSE <<[key |-> last'.arg.key,
                                       val |-> ref[last'.arg.key][1]]>>]_vars

\* A remove that returned an entry whose value an insert had overwritten,
\* leaving two keys in the map.
C11_Witness ==
    /\ last.op = "remove_by"
    /\ last.res # <<>>
    /\ last.res[1].val = MaxTag
    /\ BTreeMap_len = 2
    /\ ~BTreeMap_contains_key(last.arg.key)

(***************************************************************************)
(* AVL::iter (src/avl/iters/iter.rs): a queue of nodes, the root first.    *)
(* next pops the front node, queues its children and yields its value.     *)
(***************************************************************************)
Iter_new(r) == IF r # Nil THEN <<r>> ELSE <<>>

\* Returns <<item, nodes>>: <<>> for None, <<v>> for Some(v).
Iter_next(nodes) ==
    IF nodes = <<>> THEN <<<<>>, <<>>>>
    ELSE LET node == Head(nodes)
             q0 == Tail(nodes)
             q1 == IF node.left # Nil THEN Append(q0, node.left) ELSE q0
             q2 == IF node.right # Nil THEN Append(q1, node.right) ELSE q1
         IN  <<<<node.val>>, q2>>

RECURSIVE iter_drain(_)
iter_drain(nodes) ==
    LET r == Iter_next(nodes)
    IN  IF r[1] = <<>> THEN <<>> ELSE r[1] \o iter_drain(r[2])

AVL_iter == iter_drain(Iter_new(root))

\* Trees built by insert alone.
NextIns ==
    \/ \E val \in Ints : len < MaxLenIns /\ AVL_insert(val) /\ NoGhost

SpecIns == Init /\ [][NextIns]_vars

\* C12: iter() yields the stored elements in ascending order, that is, what
\* increasing() yields; after inserting 3, 1, 2 it yields 1, 2, 3.
C12_IterAscending ==
    /\ NonDecreasing(AVL_iter)
    /\ AVL_iter = AVL_increasing

(***************************************************************************)
(* Membership (Node::contains, AVL::contains).                             *)
(***************************************************************************)
\* contains giving up where the target is Less than the node's value.
RECURSIVE contains_right_only(_, _)
contains_right_only(n, target) ==
    IF lt(target, n.val) THEN FALSE
    ELSE IF eq(target, n.val) THEN TRUE
    ELSE IF n.right # Nil THEN contains_right_only(n.right, target) ELSE FALSE

RECURSIVE contains(_, _)
contains(n, target) ==
    IF lt(target, n.val)
    THEN IF n.left # Nil THEN contains(n.left, target) ELSE FALSE
    ELSE IF eq(target, n.val) THEN TRUE
    ELSE IF n.right # Nil THEN contains(n.right, target) ELSE FALSE

AVL_contains(target) == IF root # Nil THEN contains(root, target) ELSE FALSE

\* C13: after any inserts and deletes, contains(x) is true exactly when x is in
\* the multiset of the values inserted and not yet deleted; on an empty tree
\* it is false.
C13_Contains ==
    /\ \A target \in Targets :
           AVL_contains(target) = (target.key \in Keys /\ bag[target.key] > 0)
    /\ root = Nil => \A target \in Targets : ~AVL_contains(target)

\* After a delete that removed a value: the root's left child has a duplicate
\* of its own value in its left subtree, contains finds it, and some value of
\* the key range is not stored.
C13_Witness ==
    /\ last.op = "delete"
    /\ last.res
    /\ root # Nil
    /\ root.left # Nil
    /\ \E e \in Elems(root.left.left) : eq(e, root.left.val) /\ AVL_contains(e)
    /\ \E target \in Targets : ~AVL_contains(target) /\ target.key \in Keys

(***************************************************************************)
(* Removal seen by a caller that keeps the tree as it was before each call *)
(* in prev.  AVL::remove is delete answering the removed element as an     *)
(* Option; for the integers the element removed is the one asked for.      *)
(***************************************************************************)
AVL_remove(val) ==
    /\ LET r == IF root # Nil THEN delete(root, val) ELSE <<FALSE, Nil>>
       IN  /\ root' = r[2]
           /\ len' = IF r[1] THEN len - 1 ELSE len
           /\ last' = [op |-> "remove", arg |-> val,
                       res |-> IF r[1] THEN <<val>> ELSE <<>>]
    /\ bag' = [bag EXCEPT ![val.key] = IF @ = 0 THEN 0 ELSE @ - 1]
    /\ UNCHANGED <<plain, phase>>

KeepPrev == prev' = [root |-> root, len |-> len] /\ UNCHANGED ref

NextDel ==
    \/ \E val \in Ints : len < MaxLenDel /\ AVL_insert(val) /\ KeepPrev
    \/ \E val \in Ints : AVL_delete(val) /\ KeepPrev
    \/ \E val \in Ints : AVL_remove(val) /\ KeepPrev
    \/ \E val \in Ints : AVL_remove_by(val.key) /\ KeepPrev

SpecDel == Init /\ [][NextDel]_vars

Stored(t, v) == \E e \in Elems(t) : eq(e, v)

Removal == {"delete", "remove", "remove_by"}

\* C14: a delete, remove or remove_by of a value that was not stored (the
\* empty tree included) returns false, respectively None, leaves len() as it
\* was, and leaves the sequence increasing() yields as it was.
C14_AbsentDelete ==
    (last.op \in Removal /\ ~Stored(prev.root, last.arg)) =>
        /\ last.op = "delete" => last.res = FALSE
        /\ last.op \in {"remove", "remove_by"} => last.res = <<>>
        /\ len = prev.len
        /\ AVL_increasing = inc_drain(Increasing_new(prev.root))

\* A delete of a value absent from a tree of three or more elements.
C14_Witness ==
    /\ last.op = "delete"
    /\ ~Stored(prev.root, last.arg)
    /\ prev.len >= 3
    /\ Len(AVL_increasing) >= 3

(***************************************************************************)
(* Delete at a node with two children (Node::delete, the first match arm). *)
(***************************************************************************)
InOrder(t) == inc_drain(Increasing_new(t))

RECURSIVE Subtrees(_)
Subtrees(t) == IF t = Nil THEN {} ELSE {t} \cup Subtrees(t.left) \cup Subtrees(t.right)

TwoChildren(n) == n # Nil /\ n.left # Nil /\ n.right # Nil

\* The in-order successor of a node with two children.
Successor(n) == Head(InOrder(n.right))

\* rv holds what n held but one occurrence of n's value: the elements of n's
\* left subtree, then the successor, then those of n's right subtree but the
\* successor.
OneRemoved(n, rv) ==
    InOrder(rv) = InOrder(n.left) \o <<Successor(n)>> \o Tail(InOrder(n.right))

\* The successor is at the position n had, over the elements of n's left
\* subtree.
SuccessorOnTop(n, rv) ==
    /\ rv.val = Successor(n)
    /\ InOrder(rv.left) = InOrder(n.left)
    /\ InOrder(rv.right) = Tail(InOrder(n.right))

\* The successor is the left or the right child of the node at that position.
SuccessorBelowTop(n, rv) ==
    \/ rv.left # Nil /\ rv.left.val = Successor(n)
    \/ rv.right # Nil /\ rv.right.val = Successor(n)

\* C15 as stated: deleting the value of a node with two children removes one
\* occurrence and leaves the in-order successor at that node's position, the
\* left subtree keeping its elements and the right subtree losing only the
\* successor; both for the call on the tree and at every node of the tree.
C15_SuccessorAtPosition ==
    /\ (last.op = "delete" /\ TwoChildren(prev.root) /\ eq(last.arg, prev.root.val))
          => /\ last.res
             /\ len = prev.len - 1
             /\ OneRemoved(prev.root, root)
             /\ SuccessorOnTop(prev.root, root)
    /\ \A n \in Subtrees(root) :
          TwoChildren(n) =>
              LET r == delete(n, n.val)
              IN  r[1] /\ OneRemoved(n, r[2]) /\ SuccessorOnTop(n, r[2])

\* C15 amended: the successor is put at the node's position and balance is
\* then applied there: one occurrence is removed, and the successor ends at
\* that position over the elements of the left subtree, or, where balance
\* rotated, one level below it.
C15_SuccessorThenBalance ==
    /\ (last.op = "delete" /\ TwoChildren(prev.root) /\ eq(last.arg, prev.root.val))
          => /\ last.res
             /\ len = prev.len - 1
             /\ OneRemoved(prev.root, root)
             /\ SuccessorOnTop(prev.root, root) \/ SuccessorBelowTop(prev.root, root)
    /\ \A n \in Subtrees(root) :
          TwoChildren(n) =>
              LET r == delete(n, n.val)
              IN  /\ r[1]
                  /\ OneRemoved(n, r[2])
                  /\ SuccessorOnTop(n, r[2]) \/ SuccessorBelowTop(n, r[2])

\* A delete of the root's value where the successor was the left child of the
\* root's right child: it is the root now, over the same left subtree.
C15_Witness ==
    /\ last.op = "delete"
    /\ TwoChildren(prev.root)
    /\ eq(last.arg, prev.root.val)
    /\ prev.root.right.left # Nil
    /\ root.val = Successor(prev.root)
    /\ root.val # prev.root.val
    /\ root.left = prev.root.left

(***************************************************************************)
(* Trees built by insert_distinct alone, the path BTreeMap::insert takes.  *)
(***************************************************************************)
NextDistinct ==
    \/ \E val \in Ints : AVL_insert_distinct(val) /\ NoGhost

SpecDistinct == Init /\ [][NextDistinct]_vars

\* Every node's cached height is 1 + the larger of its children's cached heights.
RECURSIVE HeightsConsistent(_)
HeightsConsistent(t) ==
    \/ t = Nil
    \/ /\ t.height = 1 + Max(h(t.left), h(t.right))
       /\ HeightsConsistent(t.left)
       /\ HeightsConsistent(t.right)

\* C16: after any sequence of insert_distinct calls on an empty tree, every
\* node's cached height is 1 + max of its children's heights and every node
\* satisfies the AVL balance invariant.
C16_DistinctBalanced ==
    /\ HeightsConsistent(root)
    /\ Balanced(root)

\* C17: after any sequence of insert calls alone (duplicates allowed) on an
\* empty tree, every node's cached height is its true height and every node's
\* subtrees differ in height by at most 1.
C17_InsertBalanced ==
    /\ HeightsCached(root)
    /\ Balanced(root)

\* After an insert: a tree of three levels at the length bound, holding a
\* repeated value, with both subtrees of the root present.
C17_Witness ==
    /\ last.op = "insert"
    /\ len = MaxLenIns
    /\ AVL_height = 3
    /\ \E k \in Keys : bag[k] >= 2
    /\ root.left # Nil
    /\ root.right # Nil

(***************************************************************************)
(* AVL::levels (src/avl/iters/lev.rs): h_left levels are still to come,    *)
(* cur is the level to yield next, Nil standing for an absent node.  A     *)
(* level is yielded as its slots: <<>> for a gap, <<v>> for a value.       *)
(***************************************************************************)
Levels_new(r, height) == [h_left |-> height, cur |-> <<r>>]

RECURSIVE Levels_newlist(_)
Levels_newlist(cur) ==
    IF cur = <<>> THEN <<>>
    ELSE LET node == Head(cur)
         IN  <<IF node # Nil THEN node.left ELSE Nil,
               IF node # Nil THEN node.right ELSE Nil>>
             \o Levels_newlist(Tail(cur))

Level_slots(ll) ==
    [i \in 1..Len(ll) |-> IF ll[i] # Nil THEN <<ll[i].val>> ELSE <<>>]

\* Returns <<item, it>>: <<>> for None, <<slots>> for Some(level).
Levels_next(it) ==
    IF it.h_left > 0
    THEN <<<<Level_slots(it.cur)>>,
           [h_left |-> it.h_left - 1, cur |-> Levels_newlist(it.cur)]>>
    ELSE <<<<>>, it>>

RECURSIVE levels_drain(_)
levels_drain(it) ==
    LET r == Levels_next(it)
    IN  IF r[1] = <<>> THEN <<>> ELSE r[1] \o levels_drain(r[2])

AVL_levels == levels_drain(Levels_new(root, AVL_height))

RECURSIVE Pow2(_)
Pow2(d) == IF d = 0 THEN 1 ELSE 2 * Pow2(d - 1)

\* The number of slots over all levels that hold an element of key k.
SlotsOf(lvs, k) ==
    Cardinality({<<d, i>> \in (1..Len(lvs)) \X (1..Pow2(Len(lvs))) :
                    i <= Len(lvs[d]) /\ lvs[d][i] # <<>> /\ lvs[d][i][1].key = k})

\* C18: levels() yields as many levels as the tree is high, level d (from 0)
\* has 2^d slots, and the slots that are no gaps hold the stored elements,
\* each once.
C18_Levels ==
    LET lvs == AVL_levels
    IN  /\ Len(lvs) = TrueHeight(root)
        /\ \A d \in 1..Len(lvs) : Len(lvs[d]) = Pow2(d - 1)
        /\ \A k \in Keys : SlotsOf(lvs, k) = Occurrences(AVL_increasing, k)

(***************************************************************************)
(* The consuming iterators (IntoIncreasing, IntoDecreasing): the cursor    *)
(* owns its nodes; a node whose child the walk went down to has had that   *)
(* child taken out (left.take(), right.take()).                            *)
(***************************************************************************)
RECURSIVE inc_FakeNode2_new(_, _)
inc_FakeNode2_new(node, parent) ==
    IF node.left # Nil
    THEN inc_FakeNode2_new(node.left, <<[node EXCEPT !.left = Nil]>> \o parent)
    ELSE <<node>> \o parent

inc_FakeNode2_init(node) == inc_FakeNode2_new(node, <<>>)

IntoIncreasing_new(node) == IF node = Nil THEN <<>> ELSE inc_FakeNode2_init(node)

\* next going back to the parent without a look at the right child.
IntoIncreasing_next_up_only(it) ==
    IF it = <<>> THEN << <<>>, it >>
    ELSE << <<it[1].val>>, Tail(it) >>

\* Returns <<item, iterator>>.
IntoIncreasing_next(it) ==
    IF it = <<>> THEN << <<>>, it >>
    ELSE LET node == it[1]
             parent == Tail(it)
         IN  << <<node.val>>,
                IF node.right # Nil
                THEN inc_FakeNode2_new(node.right, parent)
                ELSE parent >>

RECURSIVE dec_FakeNode2_new(_, _)
dec_FakeNode2_new(node, parent) ==
    IF node.right # Nil
    THEN dec_FakeNode2_new(node.right, <<[node EXCEPT !.right = Nil]>> \o parent)
    ELSE <<node>> \o parent

dec_FakeNode2_init(node) == dec_FakeNode2_new(node, <<>>)

IntoDecreasing_new(node) == IF node = Nil THEN <<>> ELSE dec_FakeNode2_init(node)

IntoDecreasing_next(it) ==
    IF it = <<>> THEN << <<>>, it >>
    ELSE LET node == it[1]
             parent == Tail(it)
         IN  << <<node.val>>,
                IF node.left # Nil
                THEN dec_FakeNode2_new(node.left, parent)
                ELSE parent >>

RECURSIVE into_inc_drain(_)
into_inc_drain(it) ==
    LET r == IntoIncreasing_next(it)
    IN  IF r[1] = <<>> THEN <<>> ELSE r[1] \o into_inc_drain(r[2])

RECURSIVE into_dec_drain(_)
into_dec_drain(it) ==
    LET r == IntoDecreasing_next(it)
    IN  IF r[1] = <<>> THEN <<>> ELSE r[1] \o into_dec_drain(r[2])

AVL_into_increasing == into_inc_drain(IntoIncreasing_new(root))
AVL_into_decreasing == into_dec_drain(IntoDecreasing_new(root))

\* C19: into_increasing() yields the sequence increasing() yields and
\* into_decreasing() the sequence decreasing() yields; each holds every stored
\* element once, by the reference multiset, and ends with None.
C19_Consuming ==
    /\ AVL_into_increasing = AVL_increasing
    /\ AVL_into_decreasing = AVL_decreasing
    /\ \A k \in Keys :
           /\ Occurrences(AVL_into_increasing, k) = bag[k]
           /\ Occurrences(AVL_into_decreasing, k) = bag[k]

\* After a delete: a tree of three levels with a repeated value, whose root
\* has both children, the left one with a right child of its own.
C19_Witness ==
    /\ last.op = "delete"
    /\ last.res
    /\ TrueHeight(root) = 3
    /\ root.left # Nil
    /\ root.right # Nil
    /\ root.left.right # Nil
    /\ \E k \in Keys : bag[k] >= 2
    /\ Len(AVL_into_increasing) = len

====
